---- MODULE Spec2Model ----
(***************************************************************************)
(* A model of the mosaic package (src/mosaic.go, the version with Region   *)
(* support, lines 208-446): CreateMosaic, imageToPixels, kmeans,           *)
(* findNearestCentroidIndex, findNearestCentroid, distance, averagePixels  *)
(* and fillBlock.                                                          *)
(*                                                                         *)
(* Arithmetic.  The code computes on float64.  The model computes on exact *)
(* rationals <<n, d>> (d > 0, lowest terms).  distance is a square root;   *)
(* the model keeps its square (distanceSq) and compares squares, which     *)
(* orders non-negative numbers as the roots do.                            *)
(***************************************************************************)
EXTENDS Integers, Sequences, FiniteSets, TLC

(***************************************************************************)
(* Bounds of the model.                                                    *)
(***************************************************************************)
MaxW == 3
MaxH == 2
MaxK == 2
MaxBlock == 2
MaxIter == 2

(***************************************************************************)
(* Rationals.                                                              *)
(***************************************************************************)
Abs(n) == IF n < 0 THEN -n ELSE n

RECURSIVE GCD(_, _)
GCD(a, b) == IF b = 0 THEN a ELSE GCD(b, a % b)

Rat(n, d) == LET g == GCD(Abs(n), d) IN <<n \div g, d \div g>>

Zero == <<0, 1>>
One == <<1, 1>>

RatAdd(a, b) == Rat(a[1] * b[2] + b[1] * a[2], a[2] * b[2])
RatSub(a, b) == Rat(a[1] * b[2] - b[1] * a[2], a[2] * b[2])
RatMul(a, b) == Rat(a[1] * b[1], a[2] * b[2])
RatDivInt(a, n) == Rat(a[1], a[2] * n)

\* a < b for non-negative rationals, by Euclid's algorithm on the two
\* fractions (no cross product, so no overflow).  <<1, 0>> stands for a
\* value above every distance (math.MaxFloat64).
RECURSIVE FracLess(_, _, _, _)
FracLess(a, b, c, d) ==
    LET qa == a \div b
        qc == c \div d
        ra == a % b
        rc == c % d
    IN  IF qa # qc THEN qa < qc
        ELSE IF rc = 0 THEN FALSE
        ELSE IF ra = 0 THEN TRUE
        ELSE FracLess(d, rc, b, ra)

MaxFloat64 == <<1, 0>>

RatLess(a, b) ==
    IF a[2] = 0 THEN FALSE
    ELSE IF b[2] = 0 THEN TRUE
    ELSE FracLess(a[1], a[2], b[1], b[2])

\* The integer part of a non-negative rational.
Trunc(a) == a[1] \div a[2]

(***************************************************************************)
(* type Pixel struct { R, G, B float64 }                                   *)
(***************************************************************************)
Pixel(r, g, b) == [R |-> r, G |-> g, B |-> b]

ZeroPixel == Pixel(Zero, Zero, Zero)

\* distance(p1, p2)^2
distanceSq(p1, p2) ==
    LET dr == RatSub(p1.R, p2.R)
        dg == RatSub(p1.G, p2.G)
        db == RatSub(p1.B, p2.B)
    IN  RatAdd(RatAdd(RatMul(dr, dr), RatMul(dg, dg)), RatMul(db, db))

RECURSIVE SumChannel(_, _, _)
SumChannel(pixels, ch, i) ==
    IF i > Len(pixels) THEN Zero
    ELSE RatAdd(pixels[i][ch], SumChannel(pixels, ch, i + 1))

averagePixels(pixels) ==
    IF Len(pixels) = 0 THEN ZeroPixel
    ELSE LET n == Len(pixels)
         IN  Pixel(RatDivInt(SumChannel(pixels, "R", 1), n),
                   RatDivInt(SumChannel(pixels, "G", 1), n),
                   RatDivInt(SumChannel(pixels, "B", 1), n))

\* The loop with dist <= minDist: the last of several nearest centroids wins.
RECURSIVE NearestLoop_LastOnTie(_, _, _, _, _)
NearestLoop_LastOnTie(p, centroids, i, minDist, nearest) ==
    IF i >= Len(centroids) THEN nearest
    ELSE LET dist == distanceSq(p, centroids[i + 1])
         IN  IF ~RatLess(minDist, dist)
             THEN NearestLoop_LastOnTie(p, centroids, i + 1, dist, i)
             ELSE NearestLoop_LastOnTie(p, centroids, i + 1, minDist, nearest)

\* The loop of findNearestCentroidIndex from position i (0-based, as in the
\* code) on, with the running minDist and nearest.
RECURSIVE NearestLoop(_, _, _, _, _)
NearestLoop(p, centroids, i, minDist, nearest) ==
    IF i >= Len(centroids) THEN nearest
    ELSE LET dist == distanceSq(p, centroids[i + 1])
         IN  IF RatLess(dist, minDist)
             THEN NearestLoop(p, centroids, i + 1, dist, i)
             ELSE NearestLoop(p, centroids, i + 1, minDist, nearest)

findNearestCentroidIndex(p, centroids) ==
    NearestLoop(p, centroids, 0, MaxFloat64, 0)

findNearestCentroid(p, centroids) ==
    centroids[findNearestCentroidIndex(p, centroids) + 1]

(***************************************************************************)
(* Images (image.RGBA with 8-bit channels), rectangles and regions.        *)
(***************************************************************************)
RGBA(r, g, b, a) == [R |-> r, G |-> g, B |-> b, A |-> a]

Rect(x0, y0, x1, y1) == [MinX |-> x0, MinY |-> y0, MaxX |-> x1, MaxY |-> y1]

Dx(b) == b.MaxX - b.MinX
Dy(b) == b.MaxY - b.MinY

Points(b) == (b.MinX .. b.MaxX - 1) \X (b.MinY .. b.MaxY - 1)

\* img.Bounds()
Bounds(img) == img.Rect

\* img.At(x, y): the zero colour outside the bounds.
At(img, x, y) ==
    IF <<x, y>> \in DOMAIN img.Pix THEN img.Pix[<<x, y>>] ELSE RGBA(0, 0, 0, 0)

\* color.RGBA.RGBA(): each 8-bit channel widened to 16 bits.
RGBA16(c) == [R |-> c.R * 257, G |-> c.G * 257, B |-> c.B * 257]

\* Pixel{R: float64(r) / 65535, G: float64(g) / 65535, B: float64(b) / 65535}
ToPixel(c) ==
    LET w == RGBA16(c)
    IN  Pixel(Rat(w.R, 65535), Rat(w.G, 65535), Rat(w.B, 65535))

\* uint8(f * 255) for a channel value f in [0, 1].
ToUint8(f) == Trunc(RatMul(f, <<255, 1>>)) % 256

\* color.RGBA{R: uint8(avgColor.R * 255), ..., A: 255}
BlockColor(avgColor) ==
    RGBA(ToUint8(avgColor.R), ToUint8(avgColor.G), ToUint8(avgColor.B), 255)

Region(x, y, w, h) == [X |-> x, Y |-> y, Width |-> w, Height |-> h]

\* The full-image region the code builds twice.
FullRegion(bounds) == Region(bounds.MinX, bounds.MinY, Dx(bounds), Dy(bounds))

\* The validation step without its right-edge test.
InvalidRegion_NoRightEdge(bounds, r) ==
    \/ r.X < bounds.MinX
    \/ r.Y < bounds.MinY
    \/ r.Y + r.Height > bounds.MaxY

\* The test of the "Validate region" step.
InvalidRegion(bounds, r) ==
    \/ r.X < bounds.MinX
    \/ r.Y < bounds.MinY
    \/ r.X + r.Width > bounds.MaxX
    \/ r.Y + r.Height > bounds.MaxY

\* The region CreateMosaic works on: requested is << >> for a nil
\* opts.Region and <<r>> for a pointer to r.
ResolveRegion(bounds, requested) ==
    LET r == IF requested = << >> THEN FullRegion(bounds) ELSE requested[1]
    IN  IF InvalidRegion(bounds, r) THEN FullRegion(bounds) ELSE r

\* An output image allocated from the width and height alone, at (0, 0).
NewCanvas_AtOrigin(img) ==
    [Rect |-> Rect(0, 0, Dx(Bounds(img)), Dy(Bounds(img))),
     Pix  |-> [p \in Points(Rect(0, 0, Dx(Bounds(img)), Dy(Bounds(img)))) |->
                 At(img, p[1] + Bounds(img).MinX, p[2] + Bounds(img).MinY)]]

\* mosaic := image.NewRGBA(bounds); draw.Draw(mosaic, bounds, img, bounds.Min, draw.Src)
NewCanvas(img) ==
    [Rect |-> Bounds(img),
     Pix  |-> [p \in Points(Bounds(img)) |-> At(img, p[1], p[2])]]

\* imageToPixels: the region's pixels row by row.  Both loops are empty
\* when the width or the height is not positive.
imageToPixels(img, region) ==
    IF region.Width <= 0 \/ region.Height <= 0 THEN << >>
    ELSE [i \in 1 .. region.Width * region.Height |->
            ToPixel(At(img, region.X + ((i - 1) % region.Width),
                            region.Y + ((i - 1) \div region.Width)))]

\* make([]Pixel, 0, region.Width*region.Height) panics on a negative capacity.
MakePanics(region) == region.Width * region.Height < 0

(***************************************************************************)
(* kmeans                                                                  *)
(***************************************************************************)
\* An initialization that stops at the number of samples when there are
\* fewer than K.
InitialCentroids_AtMostSamples(pixels, idxs) ==
    [i \in 1 .. (IF Len(idxs) < Len(pixels) THEN Len(idxs) ELSE Len(pixels)) |->
        pixels[idxs[i] + 1]]

\* centroids[i] = pixels[idx] for the drawn indices (0-based).
InitialCentroids(pixels, idxs) == [i \in 1 .. Len(idxs) |-> pixels[idxs[i] + 1]]

\* clusters[i] after the assignment loop (i 0-based).
Cluster(pixels, centroids, i) ==
    SelectSeq(pixels, LAMBDA p : findNearestCentroidIndex(p, centroids) = i)

\* The update loop without its else branch: the centroid of an empty
\* cluster is left at the zero Pixel of make([]Pixel, k).
NewCentroid_ZeroEmpty(pixels, centroids, i) ==
    LET c == Cluster(pixels, centroids, i)
    IN  IF Len(c) > 0 THEN averagePixels(c) ELSE ZeroPixel

\* The update loop taking the first member of a cluster for its centroid,
\* not the mean of the members.
NewCentroid_FirstMember(pixels, centroids, i) ==
    LET c == Cluster(pixels, centroids, i)
    IN  IF Len(c) > 0 THEN c[1] ELSE centroids[i + 1]

\* newCentroids[i] (i 0-based).
NewCentroid(pixels, centroids, i) ==
    LET c == Cluster(pixels, centroids, i)
    IN  IF Len(c) > 0 THEN averagePixels(c) ELSE centroids[i + 1]

NewCentroids(pixels, centroids) ==
    [i \in 1 .. Len(centroids) |-> NewCentroid(pixels, centroids, i - 1)]

\* maxDiff^2 after the update loop has handled clusters 0 .. i-1.
RECURSIVE MaxDiffLoop(_, _, _, _)
MaxDiffLoop(pixels, centroids, i, maxDiff) ==
    IF i >= Len(centroids) THEN maxDiff
    ELSE LET c    == Cluster(pixels, centroids, i)
             diff == distanceSq(centroids[i + 1], averagePixels(c))
         IN  IF Len(c) > 0 /\ RatLess(maxDiff, diff)
             THEN MaxDiffLoop(pixels, centroids, i + 1, diff)
             ELSE MaxDiffLoop(pixels, centroids, i + 1, maxDiff)

MaxDiffSq(pixels, centroids) == MaxDiffLoop(pixels, centroids, 0, Zero)

\* The convergence check with maxDiff <= tolerance.
Converged_OrEqual(maxDiffSq, tolerance) ==
    ~RatLess(RatMul(tolerance, tolerance), maxDiffSq)

\* maxDiff < tolerance, for tolerance >= 0.
Converged(maxDiffSq, tolerance) == RatLess(maxDiffSq, RatMul(tolerance, tolerance))

(***************************************************************************)
(* Rendering                                                               *)
(***************************************************************************)
\* fillBlock with both loops one pixel short.
fillBlock_OneShort(canvas, x, y, size, c) ==
    [canvas EXCEPT !.Pix =
        [p \in DOMAIN canvas.Pix |->
            IF /\ p[1] >= x /\ p[1] < x + size - 1 /\ p[1] < canvas.Rect.MaxX
               /\ p[2] >= y /\ p[2] < y + size - 1 /\ p[2] < canvas.Rect.MaxY
            THEN c ELSE canvas.Pix[p]]]

\* fillBlock(img, x, y, size, c)
fillBlock(canvas, x, y, size, c) ==
    [canvas EXCEPT !.Pix =
        [p \in DOMAIN canvas.Pix |->
            IF /\ p[1] >= x /\ p[1] < x + size /\ p[1] < canvas.Rect.MaxX
               /\ p[2] >= y /\ p[2] < y + size /\ p[2] < canvas.Rect.MaxY
            THEN c ELSE canvas.Pix[p]]]

\* blockPixels of the block at (x, y): the pixels of the source image the
\* two inner loops append, row by row.
BlockW(region, size, x) ==
    IF x + size < region.X + region.Width THEN size ELSE region.X + region.Width - x
BlockH(region, size, y) ==
    IF y + size < region.Y + region.Height THEN size ELSE region.Y + region.Height - y

\* blockPixels gathered without the region's far edges in the loop conditions.
blockPixels_Unclipped(img, region, size, x, y) ==
    [i \in 1 .. size * size |->
        ToPixel(At(img, x + ((i - 1) % size), y + ((i - 1) \div size)))]

blockPixels(img, region, size, x, y) ==
    LET w == BlockW(region, size, x)
        h == BlockH(region, size, y)
    IN  [i \in 1 .. w * h |->
            ToPixel(At(img, x + ((i - 1) % w), y + ((i - 1) \div w)))]

\* The block painted with its average colour, not with a palette entry.
BlockPaint_Average(img, region, size, centroids, x, y) ==
    BlockColor(averagePixels(blockPixels(img, region, size, x, y)))

\* The colour painted on the block at (x, y).
BlockPaint(img, region, size, centroids, x, y) ==
    BlockColor(findNearestCentroid(
        averagePixels(blockPixels(img, region, size, x, y)), centroids))

\* The origins (x, y) the two block loops visit from (x, y) on, in order:
\* left to right, then down.
RECURSIVE BlocksFrom(_, _, _, _)
BlocksFrom(region, size, x, y) ==
    IF y >= region.Y + region.Height THEN << >>
    ELSE IF x >= region.X + region.Width
         THEN BlocksFrom(region, size, region.X, y + size)
    ELSE <<(<<x, y>>)>> \o BlocksFrom(region, size, x + size, y)

Blocks(region, size) == BlocksFrom(region, size, region.X, region.Y)

\* The body of the block loops for the blocks k, k+1, ... of the sequence.
RECURSIVE PaintFrom(_, _, _, _, _, _, _)
PaintFrom(canvas, img, region, size, centroids, blocks, k) ==
    IF k > Len(blocks) THEN canvas
    ELSE PaintFrom(
            fillBlock(canvas, blocks[k][1], blocks[k][2], size,
                      BlockPaint(img, region, size, centroids,
                                 blocks[k][1], blocks[k][2])),
            img, region, size, centroids, blocks, k + 1)

PaintBlocks(canvas, img, region, size, centroids) ==
    PaintFrom(canvas, img, region, size, centroids, Blocks(region, size), 1)

(***************************************************************************)
(* kmeans and CreateMosaic as functions of their inputs and of the values  *)
(* idxs that rand.Intn returns.                                            *)
(***************************************************************************)
RECURSIVE KmeansLoop(_, _, _, _, _)
KmeansLoop(pixels, centroids, iteration, maxIterations, tolerance) ==
    IF iteration >= maxIterations THEN centroids
    ELSE \* newCentroids is computed once in a round
         CHOOSE result \in
             {IF Converged(MaxDiffSq(pixels, centroids), tolerance)
              THEN newCentroids
              ELSE KmeansLoop(pixels, newCentroids, iteration + 1,
                              maxIterations, tolerance) :
                 newCentroids \in {NewCentroids(pixels, centroids)}} : TRUE

kmeans(pixels, idxs, maxIterations, tolerance) ==
    KmeansLoop(pixels, InitialCentroids(pixels, idxs), 0, maxIterations, tolerance)

CreateMosaic(image, options, idxs) ==
    \* the region, the samples and the palette are each computed once, as
    \* the variables region, pixels and centroids are
    CHOOSE out \in
        UNION {UNION {{PaintBlocks(NewCanvas(image), image, r, options.BlockSize,
                                   palette) :
                          palette \in {kmeans(samples, idxs, options.Iterations,
                                              options.Tolerance)}} :
                      samples \in {imageToPixels(image, r)}} :
               r \in {ResolveRegion(Bounds(image), options.Region)}} : TRUE

(***************************************************************************)
(* The calls the model explores.                                           *)
(***************************************************************************)
Red == RGBA(255, 0, 0, 255)
Blue == RGBA(0, 0, 255, 255)
SrcColours == <<Red, Blue>>

\* An image of w x h pixels with its top-left corner at (o, o), pixel (x, y)
\* carrying the colour number (a[x] + b[y]) mod 2: solid images, stripes,
\* halves and checkerboards.
Image(o, w, h, a, b) ==
    [Rect |-> Rect(o, o, o + w, o + h),
     Pix  |-> [p \in Points(Rect(o, o, o + w, o + h)) |->
                 SrcColours[((a[p[1] - o] + b[p[2] - o]) % 2) + 1]]]

Flat(n) == [i \in 0 .. n - 1 |-> 0]

Alternating(n) == [i \in 0 .. n - 1 |-> i % 2]

\* The first s columns red, the others blue.
Split(n, s) == [i \in 0 .. n - 1 |-> IF i < s THEN 0 ELSE 1]

\* Column colourings: flat, alternating, and split after every column.
Columns(n) == {Flat(n), Alternating(n)} \cup {Split(n, s) : s \in 1 .. n - 1}

\* The images with these column colourings, and the checkerboard.
ColumnImages(o, w, h) ==
    {Image(o, w, h, a, Flat(h)) : a \in Columns(w)}
        \cup {Image(o, w, h, Alternating(w), Alternating(h))}

\* The image of the package's test: the left half red, the right half blue.
HalfImage(o, w, h) ==
    Image(o, w, h, [x \in 0 .. w - 1 |-> IF x < w \div 2 THEN 0 ELSE 1],
                   [y \in 0 .. h - 1 |-> 0])

\* Tolerance values: 0, the default 0.001, and 1.
DefaultTolerance == <<1, 1000>>
Tolerances == {Zero, DefaultTolerance, One}

Options(k, size, iters, tol, requested) ==
    [K |-> k, BlockSize |-> size, Iterations |-> iters, Tolerance |-> tol,
     Region |-> requested]

\* Requested regions around an image's bounds: one axis varies over every
\* kind of value (below the minimum, inside, beyond the maximum, zero and
\* negative extent) while the other spans the image, small boxes inside,
\* and one region of negative width and height.
RequestedRegions(b) ==
    LET xs == b.MinX - 1 .. b.MaxX
        ys == b.MinY - 1 .. b.MaxY
        ws == -1 .. Dx(b) + 1
        hs == -1 .. Dy(b) + 1
    IN  {<<Region(x, b.MinY, w, Dy(b))>> : x \in xs, w \in ws}
        \cup {<<Region(b.MinX, y, Dx(b), h)>> : y \in ys, h \in hs}
        \cup {<<Region(x, y, w, h)>> :
                x \in b.MinX .. b.MinX + 1, y \in b.MinY .. b.MinY + 1,
                w \in 1 .. 2, h \in 1 .. 2}
        \cup {<<Region(b.MinX + 1, b.MinY + 1, -1, -1)>>}

\* Calls with every kind of requested region, on the largest image, whose
\* bounds start at (1, 1), with the smallest and the largest block size.
RegionCalls ==
    {[img |-> HalfImage(1, MaxW, MaxH),
      opts |-> Options(1, size, 1, DefaultTolerance, r), calls |-> 1] :
        size \in {1, MaxBlock},
        r \in RequestedRegions(Rect(1, 1, 1 + MaxW, 1 + MaxH))}

\* Calls that vary the quantizer's parameters, on the one-row images.
QuantCalls ==
    UNION {
        {[img |-> i, opts |-> Options(k, 1, it[1], it[2], << >>), calls |-> 1] :
            i \in ColumnImages(0, w, 1), k \in 1 .. MaxK,
            it \in {<<1, DefaultTolerance>>} \cup ({MaxIter} \X Tolerances)} :
        w \in 1 .. MaxW}

\* The sizes of the images to render: one row of up to MaxW pixels, two
\* columns of up to MaxH pixels, and MaxW x MaxH.
RenderSizes ==
    {<<w, 1>> : w \in 2 .. MaxW} \cup {<<2, h>> : h \in 1 .. MaxH}
        \cup {<<MaxW, MaxH>>}

\* A red image whose top-left pixel is blue.
CornerImage(o, w, h) ==
    [Rect |-> Rect(o, o, o + w, o + h),
     Pix  |-> [p \in Points(Rect(o, o, o + w, o + h)) |->
                 IF p = <<o, o>> THEN Blue ELSE Red]]

\* The images to render: the column images and the corner image when the
\* image is one row or two columns, the halved image and the checkerboard
\* when it is MaxW x MaxH.
RenderImages(w, h) ==
    IF w > 2 /\ h > 1
    THEN {HalfImage(0, w, h), Image(0, w, h, Alternating(w), Alternating(h))}
    ELSE ColumnImages(0, w, h) \cup {CornerImage(0, w, h)}

\* Calls that vary the renderer's parameters: on the images to render for a
\* region that stops one column short of the right edge or starts one
\* column in, and on the halved image and the checkerboard for the whole
\* image.
RenderCalls ==
    UNION {
        {[img |-> i, opts |-> Options(2, size, 1, DefaultTolerance, r), calls |-> 1] :
            i \in RenderImages(d[1], d[2]), size \in 1 .. MaxBlock,
            r \in {<<Region(0, 0, d[1] - 1, d[2])>>,
                   <<Region(1, 0, d[1] - 1, d[2])>>}}
        \cup
        {[img |-> i, opts |-> Options(2, size, 1, DefaultTolerance, << >>), calls |-> 1] :
            i \in {HalfImage(0, d[1], d[2]),
                   Image(0, d[1], d[2], Alternating(d[1]), Alternating(d[2]))},
            size \in 1 .. MaxBlock} :
        d \in RenderSizes}

\* The same call made twice, on the image of one red and one blue pixel.
RepeatedCalls ==
    {[img |-> HalfImage(0, 2, 1),
      opts |-> Options(k, 1, MaxIter, DefaultTolerance, << >>), calls |-> 2] :
        k \in 1 .. MaxK}

\* Calls that ask for more colours than the image of one red and one blue
\* pixel has samples.
ScarceCalls ==
    {[img |-> HalfImage(0, 2, 1),
      opts |-> Options(MaxK + 1, 1, it[1], it[2], << >>), calls |-> 1] :
        it \in {<<1, DefaultTolerance>>, <<MaxIter, Zero>>,
                <<MaxIter, DefaultTolerance>>}}

Calls ==
    RegionCalls \cup QuantCalls \cup RenderCalls \cup RepeatedCalls
        \cup ScarceCalls

(***************************************************************************)
(* State.                                                                  *)
(***************************************************************************)
VARIABLES
    img,        \* the source image
    opts,       \* *MosaicOptions
    calls,      \* calls of CreateMosaic(img, opts) the caller still makes
    prev,       \* << >>, or <<what the previous call drew and returned>>
    pc,         \* position in CreateMosaic
    region,     \* << >>, or <<the region after the validation step>>
    mosaic,     \* << >>, or <<the output image>>
    pixels,     \* the sample set
    centroids,  \* kmeans: centroids
    iteration,  \* kmeans: rounds completed
    maxDiff,    \* kmeans: maxDiff^2 of the last round
    draws       \* the values rand.Intn returned, in order

vars == <<img, opts, calls, prev, pc, region, mosaic, pixels, centroids,
          iteration, maxDiff, draws>>

Entry ==
    /\ pc = "start"
    /\ prev = << >>
    /\ region = << >>
    /\ mosaic = << >>
    /\ pixels = << >>
    /\ centroids = << >>
    /\ iteration = 0
    /\ maxDiff = Zero
    /\ draws = << >>

Init ==
    /\ \E c \in Calls : img = c.img /\ opts = c.opts /\ calls = c.calls
    /\ Entry

\* Lines 259-280: bounds, the default region and the validation step.
Resolve ==
    /\ pc = "start"
    /\ region' = <<ResolveRegion(Bounds(img), opts.Region)>>
    /\ pc' = "copy"
    /\ UNCHANGED <<img, opts, calls, prev, mosaic, pixels, centroids,
                   iteration, maxDiff, draws>>

\* Lines 282-284: the output image, a copy of the source.
Copy ==
    /\ pc = "copy"
    /\ mosaic' = <<NewCanvas(img)>>
    /\ pc' = "sample"
    /\ UNCHANGED <<img, opts, calls, prev, region, pixels, centroids,
                   iteration, maxDiff, draws>>

\* Line 287: imageToPixels(img, region).
Sample ==
    /\ pc = "sample"
    /\ IF MakePanics(region[1])
       THEN pc' = "panic" /\ UNCHANGED pixels
       ELSE pc' = "init" /\ pixels' = imageToPixels(img, region[1])
    /\ UNCHANGED <<img, opts, calls, prev, region, mosaic, centroids,
                   iteration, maxDiff, draws>>

\* Lines 346-351: K draws of rand.Intn(len(pixels)); rand.Intn panics on 0.
KmeansInit ==
    /\ pc = "init"
    /\ IF Len(pixels) = 0
       THEN pc' = "panic" /\ UNCHANGED <<centroids, draws>>
       ELSE \E idxs \in [1 .. opts.K -> 0 .. Len(pixels) - 1] :
                /\ centroids' = InitialCentroids(pixels, idxs)
                /\ draws' = idxs
                /\ pc' = "kmeans"
    /\ iteration' = 0
    /\ UNCHANGED <<img, opts, calls, prev, region, mosaic, pixels, maxDiff>>

\* The loop with iteration <= maxIterations: one round too many.
KmeansRound_ExtraRound ==
    /\ pc = "kmeans"
    /\ iteration <= opts.Iterations
    /\ centroids' = NewCentroids(pixels, centroids)
    /\ maxDiff' = MaxDiffSq(pixels, centroids)
    /\ iteration' = iteration + 1
    /\ pc' = IF Converged(maxDiff', opts.Tolerance) \/ iteration' > opts.Iterations
             THEN "render" ELSE "kmeans"
    /\ UNCHANGED <<img, opts, calls, prev, region, mosaic, pixels, draws>>

\* A round that reseeds every empty cluster with a fresh rand.Intn draw.
KmeansRound_Reseed ==
    /\ pc = "kmeans"
    /\ iteration < opts.Iterations
    /\ \E idx \in 0 .. Len(pixels) - 1 :
          centroids' =
              [i \in 1 .. Len(centroids) |->
                  IF Len(Cluster(pixels, centroids, i - 1)) > 0
                  THEN NewCentroid(pixels, centroids, i - 1)
                  ELSE pixels[idx + 1]]
    /\ maxDiff' = MaxDiffSq(pixels, centroids)
    /\ iteration' = iteration + 1
    /\ pc' = IF Converged(maxDiff', opts.Tolerance) \/ iteration' >= opts.Iterations
             THEN "render" ELSE "kmeans"
    /\ UNCHANGED <<img, opts, calls, prev, region, mosaic, pixels, draws>>

\* Lines 353-383: one round of the loop; the loop ends on convergence or
\* at the cap, and line 385 returns the centroids.
KmeansRound ==
    /\ pc = "kmeans"
    /\ iteration < opts.Iterations
    /\ centroids' = NewCentroids(pixels, centroids)
    /\ maxDiff' = MaxDiffSq(pixels, centroids)
    /\ iteration' = iteration + 1
    /\ pc' = IF Converged(maxDiff', opts.Tolerance) \/ iteration' >= opts.Iterations
             THEN "render" ELSE "kmeans"
    /\ UNCHANGED <<img, opts, calls, prev, region, mosaic, pixels, draws>>

\* Lines 292-323: every block painted, and the image returned.
Render ==
    /\ pc = "render"
    /\ mosaic' = <<PaintBlocks(mosaic[1], img, region[1], opts.BlockSize, centroids)>>
    /\ pc' = "done"
    /\ UNCHANGED <<img, opts, calls, prev, region, pixels, centroids,
                   iteration, maxDiff, draws>>

\* The caller calls CreateMosaic(img, opts) again.
CallAgain ==
    /\ pc = "done"
    /\ calls > 1
    /\ calls' = calls - 1
    /\ prev' = <<[draws |-> draws, centroids |-> centroids, mosaic |-> mosaic[1]]>>
    /\ pc' = "start"
    /\ region' = << >>
    /\ mosaic' = << >>
    /\ pixels' = << >>
    /\ centroids' = << >>
    /\ iteration' = 0
    /\ maxDiff' = Zero
    /\ draws' = << >>
    /\ UNCHANGED <<img, opts>>

Next ==
    \/ Resolve
    \/ Copy
    \/ Sample
    \/ KmeansInit
    \/ KmeansRound
    \/ Render
    \/ CallAgain

Spec == Init /\ [][Next]_vars

(***************************************************************************)
(* Properties.                                                             *)
(***************************************************************************)
Returned == pc = "done"

Inside(r, p) ==
    /\ r.X <= p[1] /\ p[1] < r.X + r.Width
    /\ r.Y <= p[2] /\ p[2] < r.Y + r.Height

\* C1: every pixel of the returned image outside the resolved region has
\* the value of the same pixel of the source image.
C1_OutsideRegionUntouched ==
    Returned =>
        \A p \in Points(Bounds(img)) :
            ~Inside(region[1], p) => mosaic[1].Pix[p] = img.Pix[p]

\* C2: the region used after the validation step lies within the image
\* bounds and has strictly positive width and height.
C2_ResolvedRegionInBoundsPositive ==
    region # << >> =>
        LET r == region[1]
            b == Bounds(img)
        IN  /\ b.MinX <= r.X /\ r.X + r.Width <= b.MaxX
            /\ b.MinY <= r.Y /\ r.Y + r.Height <= b.MaxY
            /\ r.Width > 0 /\ r.Height > 0

\* The requested region violates one of the four bounds.
ViolatesBound ==
    /\ opts.Region # << >>
    /\ LET q == opts.Region[1]
           b == Bounds(img)
       IN  \/ q.X < b.MinX
           \/ q.Y < b.MinY
           \/ q.X + q.Width > b.MaxX
           \/ q.Y + q.Height > b.MaxY

\* C3: a requested region that violates a bound raises no error and is
\* replaced by the full-image region (Min.X, Min.Y, Dx, Dy); the returned
\* image is the one the call with Region = nil returns under the same draws.
C3_InvalidRegionFallsBack ==
    ViolatesBound =>
        /\ pc # "panic"
        /\ region # << >> =>
              region[1] = [X |-> img.Rect.MinX, Y |-> img.Rect.MinY,
                           Width |-> img.Rect.MaxX - img.Rect.MinX,
                           Height |-> img.Rect.MaxY - img.Rect.MinY]
        /\ Returned =>
              mosaic[1] = CreateMosaic(img, [opts EXCEPT !.Region = << >>], draws)

C3_Witness ==
    /\ Returned
    /\ ViolatesBound
    /\ opts.Region[1].X >= img.Rect.MinX
    /\ opts.Region[1].X + opts.Region[1].Width > img.Rect.MaxX

\* C4: the returned image has exactly the bounds of the source image,
\* whether or not a sub-region was requested.
C4_SameBounds ==
    mosaic # << >> =>
        /\ mosaic[1].Rect = img.Rect
        /\ DOMAIN mosaic[1].Pix = DOMAIN img.Pix

C4_Witness ==
    /\ Returned
    /\ opts.Region # << >>
    /\ region[1] = opts.Region[1]
    /\ region[1] # FullRegion(Bounds(img))
    /\ img.Rect.MinX # 0

\* The grid of the claim: column i and row j of a region r cut into blocks
\* of edge size.
GridCols(r, size) == (r.Width + size - 1) \div size
GridRows(r, size) == (r.Height + size - 1) \div size
GridExtent(total, size, i, n) ==
    IF i = n - 1 /\ total % size # 0 THEN total % size ELSE size
GridPoints(r, size, i, j) ==
    (r.X + i * size ..
        r.X + i * size + GridExtent(r.Width, size, i, GridCols(r, size)) - 1)
    \X (r.Y + j * size ..
        r.Y + j * size + GridExtent(r.Height, size, j, GridRows(r, size)) - 1)

\* C5: the blocks form a grid anchored at the region's top-left corner with
\* ceil(W/B) columns and ceil(H/B) rows, the last column (row) W mod B
\* (H mod B) wide when B does not divide W (H), and in the returned image
\* all in-region pixels of one block have one colour.
C5_BlockGridUniform ==
    pc \in {"render", "done"} =>
        LET r    == region[1]
            size == opts.BlockSize
            cols == GridCols(r, size)
            rows == GridRows(r, size)
            bs   == Blocks(r, size)
        IN  /\ Len(bs) = cols * rows
            /\ \A k \in 1 .. Len(bs) :
                 LET i == (k - 1) % cols
                     j == (k - 1) \div cols
                 IN  /\ bs[k] = <<r.X + i * size, r.Y + j * size>>
                     /\ BlockW(r, size, bs[k][1]) = GridExtent(r.Width, size, i, cols)
                     /\ BlockH(r, size, bs[k][2]) = GridExtent(r.Height, size, j, rows)
                     /\ Len(blockPixels(img, r, size, bs[k][1], bs[k][2]))
                           = Cardinality(GridPoints(r, size, i, j))
                     /\ Returned =>
                           \A p, q \in GridPoints(r, size, i, j) :
                               mosaic[1].Pix[p] = mosaic[1].Pix[q]

\* A returned image with two columns of blocks, the last one clipped, and
\* two colours in the region.
C5_Witness ==
    /\ Returned
    /\ region[1].Width % opts.BlockSize # 0
    /\ GridCols(region[1], opts.BlockSize) >= 2
    /\ \E p, q \in Points(Bounds(img)) :
          /\ Inside(region[1], p) /\ Inside(region[1], q)
          /\ mosaic[1].Pix[p] # mosaic[1].Pix[q]

\* The colours of the region's pixels in the returned image.
RegionColours == {mosaic[1].Pix[p] : p \in {q \in Points(Bounds(img)) : Inside(region[1], q)}}

\* C6: every pixel inside the resolved region of the returned image carries
\* the 8-bit colour of one of the K centroids kmeans returned, so the region
\* shows at most K colours.
C6_RegionUsesPalette ==
    Returned =>
        /\ Len(centroids) = opts.K
        /\ \A c \in RegionColours :
              \E i \in 1 .. Len(centroids) :
                  c = [R |-> (centroids[i].R[1] * 255) \div centroids[i].R[2],
                       G |-> (centroids[i].G[1] * 255) \div centroids[i].G[2],
                       B |-> (centroids[i].B[1] * 255) \div centroids[i].B[2],
                       A |-> 255]
        /\ Cardinality(RegionColours) <= opts.K

\* A returned image whose region shows two colours although one of its
\* blocks mixes the two source colours.
C6_Witness ==
    /\ Returned
    /\ Cardinality(RegionColours) = 2
    /\ opts.BlockSize = 2
    /\ \E k \in 1 .. Len(Blocks(region[1], 2)) :
          LET b == Blocks(region[1], 2)[k]
          IN  Cardinality({blockPixels(img, region[1], 2, b[1], b[2])[n] :
                  n \in 1 .. Len(blockPixels(img, region[1], 2, b[1], b[2]))}) = 2

RedPixel == [R |-> <<1, 1>>, G |-> <<0, 1>>, B |-> <<0, 1>>]
BluePixel == [R |-> <<0, 1>>, G |-> <<0, 1>>, B |-> <<1, 1>>]

\* The sample set is half pure red and half pure blue.
RedBlueHalves ==
    /\ Len(pixels) > 0
    /\ \A n \in 1 .. Len(pixels) : pixels[n] \in {RedPixel, BluePixel}
    /\ 2 * Cardinality({n \in 1 .. Len(pixels) : pixels[n] = RedPixel}) = Len(pixels)

KmeansReturned == pc \in {"render", "done"}

\* The palette holds pure red and pure blue, and the returned image shows
\* red in the blocks of red pixels and blue in the blocks of blue pixels.
RedBlueSeparated ==
    /\ {centroids[i] : i \in 1 .. Len(centroids)} = {RedPixel, BluePixel}
    /\ Returned =>
          \A k \in 1 .. Len(Blocks(region[1], opts.BlockSize)) :
              LET b  == Blocks(region[1], opts.BlockSize)[k]
                  ps == (b[1] .. b[1] + BlockW(region[1], opts.BlockSize, b[1]) - 1)
                        \X (b[2] .. b[2] + BlockH(region[1], opts.BlockSize, b[2]) - 1)
              IN  /\ (\A p \in ps : img.Pix[p] = Red) =>
                        \A p \in ps : mosaic[1].Pix[p].R # 0
                  /\ (\A p \in ps : img.Pix[p] = Blue) =>
                        \A p \in ps : mosaic[1].Pix[p].B # 0

\* C7 as stated: for half red, half blue samples and K = 2, with an
\* iteration cap of at least two, kmeans returns pure red and pure blue for
\* every pair of initial draws, and the blocks of each half show its colour.
C7_RedBlueSeparatedAnyTolerance ==
    (KmeansReturned /\ RedBlueHalves /\ opts.K = 2 /\ opts.Iterations >= 2)
        => RedBlueSeparated

\* C7 amended: the same, for a tolerance of at most sqrt(1/2), the distance
\* from a pure colour to the mean of the two.
C7_RedBlueSeparated ==
    (/\ KmeansReturned /\ RedBlueHalves /\ opts.K = 2 /\ opts.Iterations >= 2
     /\ 2 * (opts.Tolerance[1] * opts.Tolerance[1])
            <= opts.Tolerance[2] * opts.Tolerance[2])
        => RedBlueSeparated

\* Both initial centroids were the same colour.
C7_Witness ==
    /\ Returned /\ RedBlueHalves /\ opts.K = 2 /\ opts.Iterations >= 2
    /\ opts.Tolerance = <<1, 1000>>
    /\ draws[1] = draws[2]

\* C8: kmeans performs at most maxIterations rounds and then returns a
\* palette of exactly K centroids, converged or not.
C8_RoundsCappedPaletteOfK ==
    /\ iteration <= opts.Iterations
    /\ pc = "kmeans" => (iteration < opts.Iterations /\ Len(centroids) = opts.K)
    /\ KmeansReturned => (iteration >= 1 /\ Len(centroids) = opts.K)

\* kmeans returned at the cap of two or more rounds, the last round having
\* moved a centroid by more than the tolerance.
C8_Witness ==
    /\ pc = "render"
    /\ iteration = opts.Iterations
    /\ iteration >= 2
    /\ opts.Tolerance = <<1, 1000>>
    /\ maxDiff[1] * 1000000 >= maxDiff[2]

\* Colours to look up: red and blue each 0, 1/2 or 1 without green, grey
\* and white.
ProbeLevels == {<<0, 1>>, <<1, 2>>, <<1, 1>>}
Probes == {[R |-> r, G |-> Zero, B |-> b] : r \in ProbeLevels, b \in ProbeLevels}
              \cup {[R |-> l, G |-> l, B |-> l] : l \in ProbeLevels}

\* C9: for every palette kmeans returns, the samples and the probe colours,
\* findNearestCentroidIndex returns an index whose centroid is at the
\* minimum distance from p, the lowest such index when several are, and
\* findNearestCentroid returns the palette entry at that index.
C9_NearestLowestIndex ==
    pc = "render" =>
        \A p \in Probes \cup {pixels[n] : n \in 1 .. Len(pixels)} :
            LET i == findNearestCentroidIndex(p, centroids)
                di == distanceSq(p, centroids[i + 1])
            IN  /\ i \in 0 .. Len(centroids) - 1
                /\ \A j \in 0 .. Len(centroids) - 1 :
                      LET dj == distanceSq(p, centroids[j + 1])
                      IN  /\ ~RatLess(dj, di)
                          /\ j < i => RatLess(di, dj)
                /\ findNearestCentroid(p, centroids) = centroids[i + 1]

\* Two different centroids at the same distance from a looked-up colour.
C9_Witness ==
    /\ pc = "render"
    /\ Len(centroids) = 2
    /\ centroids[1] # centroids[2]
    /\ \E p \in Probes :
          distanceSq(p, centroids[1]) = distanceSq(p, centroids[2])

\* C10: a second call on the same image and options whose draws equal the
\* first call's returns the same palette and the same image.
C10_SameDrawsSameResult ==
    (prev # << >> /\ draws = prev[1].draws) =>
        /\ KmeansReturned => centroids = prev[1].centroids
        /\ Returned => mosaic[1] = prev[1].mosaic

\* The second call returned after the same draws as the first, both on one
\* sample of a two-colour image.
C10_Witness ==
    /\ prev # << >>
    /\ Returned
    /\ draws = prev[1].draws
    /\ Len(draws) = 2
    /\ draws[1] = draws[2]
    /\ Len(pixels) = 2
    /\ pixels[1] # pixels[2]

\* The samples the assignment loop of the coming round puts in cluster i
\* (0-based), by their positions in the sample set.
Members(i) ==
    {n \in 1 .. Len(pixels) : findNearestCentroidIndex(pixels[n], centroids) = i}

\* A step that is one round of the loop.
RoundTaken == pc = "kmeans" /\ iteration' = iteration + 1

\* The maximum displacement of the round, over the clusters with a member
\* and starting from 0, is strictly less than the tolerance.
BelowTolerance ==
    LET tolSq == RatMul(opts.Tolerance, opts.Tolerance)
    IN  /\ RatLess(Zero, tolSq)
        /\ \A i \in 0 .. Len(centroids) - 1 :
              Members(i) # {} =>
                  RatLess(distanceSq(centroids[i + 1], centroids'[i + 1]), tolSq)

\* C11: a round whose maximum displacement (over the clusters with a member)
\* is strictly less than the tolerance ends the loop, and the centroids of
\* that round are the ones returned; a round whose maximum displacement is
\* equal to or greater than the tolerance ends the loop only at the
\* iteration cap, and otherwise another round follows.
C11_StopsBelowTolerance ==
    [][/\ RoundTaken =>
            /\ BelowTolerance => pc' = "render"
            /\ ~BelowTolerance =>
                  /\ pc' = "render" <=> iteration' >= opts.Iterations
                  /\ pc' = "kmeans" <=> iteration' < opts.Iterations
       /\ pc = "render" => centroids' = centroids]_vars

\* The loop stopped below the cap after a round that moved a centroid by
\* less than the tolerance.
C11_Witness ==
    /\ pc = "render"
    /\ iteration < opts.Iterations
    /\ maxDiff # Zero
    /\ RatLess(maxDiff, RatMul(opts.Tolerance, opts.Tolerance))

\* The sum of one channel over the samples at the positions S.
RECURSIVE MemberSum(_, _)
MemberSum(S, ch) ==
    IF S = {} THEN Zero
    ELSE LET n == CHOOSE m \in S : TRUE
         IN  RatAdd(pixels[n][ch], MemberSum(S \ {n}, ch))

\* C12: in every round a cluster without a member keeps its centroid, a
\* cluster with members gets the per-channel arithmetic mean of its members
\* (mean * count = sum), and the palette keeps its K entries.
C12_EmptyKeepsOthersMean ==
    [][RoundTaken =>
          /\ Len(centroids) = opts.K
          /\ Len(centroids') = opts.K
          /\ \A i \in 0 .. opts.K - 1 :
                IF Members(i) = {}
                THEN centroids'[i + 1] = centroids[i + 1]
                ELSE \A ch \in {"R", "G", "B"} :
                        RatMul(centroids'[i + 1][ch], <<Cardinality(Members(i)), 1>>)
                            = MemberSum(Members(i), ch)]_vars

\* After the first round of a call that drew the same sample twice from
\* samples of two colours: cluster 0 took every sample and moved to their
\* mean, cluster 1 stayed empty and kept the drawn sample.
C12_Witness ==
    /\ pc \in {"kmeans", "render"}
    /\ iteration = 1
    /\ Len(draws) = 2
    /\ draws[1] = draws[2]
    /\ \E n \in 1 .. Len(pixels) : pixels[n] # pixels[1]
    /\ centroids[1] # pixels[draws[1] + 1]
    /\ centroids[2] = pixels[draws[2] + 1]

\* The points of the square of edge size at (bx, by), and those of them that
\* lie inside the region r.
Square(bx, by, size) == (bx .. bx + size - 1) \X (by .. by + size - 1)
InRegion(r, bx, by, size) == {p \in Square(bx, by, size) : Inside(r, p)}

\* The sum of one channel of the source image over the points S, each
\* 8-bit value v counting v/255.
RECURSIVE SourceSum(_, _)
SourceSum(S, ch) ==
    IF S = {} THEN Zero
    ELSE LET p == CHOOSE q \in S : TRUE
         IN  RatAdd(Rat(At(img, p[1], p[2])[ch], 255), SourceSum(S \ {p}, ch))

\* The per-channel arithmetic mean of the source image over the points S.
SourceMean(S) ==
    [ch \in {"R", "G", "B"} |-> RatMul(SourceSum(S, ch), <<1, Cardinality(S)>>)]

\* The palette entry nearest to the colour m, the lowest index on ties.
NearestEntry(m) ==
    LET k == CHOOSE j \in 1 .. Len(centroids) :
                 \A l \in 1 .. Len(centroids) :
                     /\ ~RatLess(distanceSq(m, centroids[l]), distanceSq(m, centroids[j]))
                     /\ l < j => RatLess(distanceSq(m, centroids[j]),
                                         distanceSq(m, centroids[l]))
    IN  centroids[k]

\* The palette entry as it is painted: 8-bit channels, full opacity.
Painted(c) ==
    RGBA((255 * c.R[1]) \div c.R[2], (255 * c.G[1]) \div c.G[2],
         (255 * c.B[1]) \div c.B[2], 255)

\* C13: in the returned image every block of the grid carries, on its
\* pixels inside the resolved region, the palette entry nearest (lowest
\* index on ties) to the mean of the source image over exactly those
\* pixels.
C13_BlockNearestToSourceMean ==
    Returned =>
        LET r    == region[1]
            size == opts.BlockSize
        IN  \A i \in 0 .. GridCols(r, size) - 1, j \in 0 .. GridRows(r, size) - 1 :
                LET P == InRegion(r, r.X + i * size, r.Y + j * size, size)
                    c == Painted(NearestEntry(SourceMean(P)))
                IN  /\ P # {}
                    /\ \A p \in P : mosaic[1].Pix[p] = c

\* A returned image with a block clipped by the region's far edge whose
\* colour would be another one if the pixels of its square beyond that
\* edge entered the mean.
C13_Witness ==
    /\ Returned
    /\ LET r    == region[1]
           size == opts.BlockSize
       IN  \E i \in 0 .. GridCols(r, size) - 1, j \in 0 .. GridRows(r, size) - 1 :
               LET bx == r.X + i * size
                   by == r.Y + j * size
                   P  == InRegion(r, bx, by, size)
               IN  /\ P # Square(bx, by, size)
                   /\ Square(bx, by, size) \subseteq Points(Bounds(img))
                   /\ Painted(NearestEntry(SourceMean(Square(bx, by, size))))
                         # Painted(NearestEntry(SourceMean(P)))

\* The image img with every pixel outside the region r given the colour c.
Recoloured(r, c) ==
    [img EXCEPT !.Pix = [p \in DOMAIN img.Pix |->
                            IF Inside(r, p) THEN img.Pix[p] ELSE c]]

\* Images that agree with img on every pixel inside r.
Variants(r) == {Recoloured(r, c) : c \in {Red, Blue, RGBA(0, 0, 0, 0)}}

\* The samples are the normalized colours of the region's pixels, row by
\* row, one each.
SamplesOfRegion(r) ==
    \A n \in 1 .. Len(pixels) :
        LET p == <<r.X + ((n - 1) % r.Width), r.Y + ((n - 1) \div r.Width)>>
        IN  /\ Inside(r, p)
            /\ \A ch \in {"R", "G", "B"} :
                  pixels[n][ch] = Rat(At(img, p[1], p[2])[ch], 255)

\* An image that agrees with img inside r gives the same samples and, under
\* the same draws, the same palette and the same colours inside r.
OutsideIrrelevant(r) ==
    \A other \in Variants(r) :
        /\ imageToPixels(other, r) = pixels
        /\ KmeansReturned =>
              \A samples \in {imageToPixels(other, r)} :
                  kmeans(samples, draws, opts.Iterations, opts.Tolerance) = centroids
        /\ Returned =>
              LET out == CreateMosaic(other, [opts EXCEPT !.Region = <<r>>], draws)
              IN  \A p \in DOMAIN out.Pix :
                      Inside(r, p) => out.Pix[p] = mosaic[1].Pix[p]

\* The sample set has been handed to kmeans.
Sampled == pc \in {"init", "kmeans", "render", "done"}

\* C14: the sample set handed to kmeans holds Width x Height samples, one
\* normalized colour per pixel of the resolved region and none from
\* outside; an image that agrees inside the region gives, under the same
\* draws, the same palette and the same colours inside the region.
C14_SamplesAreTheRegion ==
    Sampled =>
        /\ Len(pixels) = region[1].Width * region[1].Height
        /\ SamplesOfRegion(region[1])
        /\ OutsideIrrelevant(region[1])

\* The same for a resolved region of positive width and height.
SamplesAreThePositiveRegion ==
    (Sampled /\ region[1].Width > 0 /\ region[1].Height > 0) =>
        /\ Len(pixels) = region[1].Width * region[1].Height
        /\ SamplesOfRegion(region[1])
        /\ OutsideIrrelevant(region[1])

\* The sample set is not empty and has fewer than K samples.
FewerThanK == pixels # << >> /\ Len(pixels) < opts.K

\* The colour c is the per-channel mean of the samples at the positions S.
MeanOf(c, S) ==
    \A ch \in {"R", "G", "B"} :
        RatMul(c[ch], <<Cardinality(S), 1>>) = MemberSum(S, ch)

\* C15: with a non-empty sample set of fewer than K samples kmeans does not
\* panic; every draw is an index of the sample set and every initial
\* centroid the sample drawn, two of them from the same draw; in every
\* round each sample's nearest index is an index of the K clusters; a round
\* can be taken whenever the loop has not ended; and the palette has
\* exactly K centroids, each a sample or a mean of samples.
C15_FewerSamplesThanK ==
    FewerThanK =>
        /\ pc # "panic"
        /\ pc \in {"kmeans", "render", "done"} =>
              /\ Len(draws) = opts.K
              /\ Len(centroids) = opts.K
              /\ \A i \in 1 .. opts.K : draws[i] \in 0 .. Len(pixels) - 1
              /\ \E i, j \in 1 .. opts.K : i # j /\ draws[i] = draws[j]
              /\ iteration = 0 =>
                    \A i \in 1 .. opts.K : centroids[i] = pixels[draws[i] + 1]
              /\ \A n \in 1 .. Len(pixels) :
                    findNearestCentroidIndex(pixels[n], centroids) \in 0 .. opts.K - 1
              /\ \A i \in 1 .. opts.K :
                    \/ \E n \in 1 .. Len(pixels) : centroids[i] = pixels[n]
                    \/ \E S \in SUBSET (1 .. Len(pixels)) :
                          S # {} /\ MeanOf(centroids[i], S)
        /\ pc = "kmeans" => iteration < opts.Iterations

\* kmeans returned after a round a palette of more centroids than there are
\* samples, one of them a mean that is no sample.
C15_Witness ==
    /\ FewerThanK
    /\ KmeansReturned
    /\ iteration >= 1
    /\ Len(pixels) >= 2
    /\ \E i \in 1 .. Len(centroids) :
          \A n \in 1 .. Len(pixels) : centroids[i] # pixels[n]

====
